---- MODULE Spec2Model ----
(***************************************************************************)
(* Model of service.transactionService (terra.go): four wrappers around    *)
(* httpclient.Client.RequestJSON.  One invocation at a time is followed    *)
(* from its call to its return (or panic); the caller's query filter map   *)
(* is a Go map, i.e. a reference that outlives the invocation.             *)
(***************************************************************************)
EXTENDS Integers, Sequences, FiniteSets, TLC

VARIABLES
    pc,         \* position of the current invocation
    method,     \* which method is running
    args,       \* the arguments of the current invocation
    filter,     \* the map object behind req.Query (shared with the caller)
    filter0,    \* contents of that map when the invocation was entered
    payload,    \* httpclient.RequestPayload handed to the client
    body,       \* the local `body` variable RequestJSON decodes into
    clientErr,  \* what RequestJSON returned
    codecErr,   \* what codec.MarshalJSON returned
    events,     \* externally visible steps of this invocation, in order
    ret         \* (value, error) returned to the caller

vars == <<pc, method, args, filter, filter0, payload, body, clientErr,
          codecErr, events, ret>>

----------------------------------------------------------------------------
(* Bounds *)

MaxPage == 2
MaxCode == 1

(* Program constants *)

CodeTypeOK == 0

----------------------------------------------------------------------------
(* Errors: nil is the empty chain; otherwise the chain of messages from    *)
(* the outermost wrapper to the root cause.                                *)

NoErr == <<>>

New(msg) == <<msg>>

Wrap(err, msg) == IF err = NoErr THEN NoErr ELSE <<msg>> \o err

Cause(err) == Tail(err)

RECURSIVE ErrorMsg(_)
ErrorMsg(err) ==
    IF Len(err) = 1 THEN err[1]
    ELSE err[1] \o ": " \o ErrorMsg(Tail(err))

----------------------------------------------------------------------------
(* fmt.Sprintf *)

DigitChars == <<"0", "1", "2", "3", "4", "5", "6", "7", "8", "9">>

RECURSIVE NatToStr(_)
NatToStr(n) ==
    IF n < 10 THEN DigitChars[n + 1]
    ELSE NatToStr(n \div 10) \o DigitChars[(n % 10) + 1]

IntVal(n) == [tag |-> "int", i |-> n, s |-> ""]
StrVal(x) == [tag |-> "str", i |-> 0, s |-> x]

\* fmt.Sprintf("%v", v) for an interface{} holding an int64 or a string
SprintfV(v) ==
    IF v.tag = "int"
    THEN (IF v.i < 0 THEN "-" \o NatToStr(0 - v.i) ELSE NatToStr(v.i))
    ELSE v.s

\* fmt.Sprintf("/txs/%s", txHash)
SprintfTxPath(txHash) == "/txs/" \o txHash

----------------------------------------------------------------------------
(* Go maps and pointers *)

EmptyFn == [x \in {} |-> 0]

NilMap == [isNil |-> TRUE, m |-> EmptyFn]

MapSet(mp, k, v) ==
    [isNil |-> FALSE,
     m |-> [x \in (DOMAIN mp.m) \cup {k} |-> IF x = k THEN v ELSE mp.m[x]]]

NilPtr == <<>>
PtrTo(n) == <<n>>
Deref(p) == p[1]

----------------------------------------------------------------------------
(* Data *)

Contexts == {"ctxA", "ctxB"}
TxHashes == {"", "AB12"}
Pointers == {NilPtr} \cup {PtrTo(n) : n \in 1..MaxPage}

FilterKeys == {"page", "limit", "tx.height"}
FilterVals == {IntVal(10), StrVal("a")}
Filters ==
    {NilMap} \cup
    {[isNil |-> FALSE, m |-> f] :
        f \in UNION {[S -> FilterVals] : S \in SUBSET FilterKeys}}

StdTxs == {"tx1", "tx2"}
BroadcastModes == {"sync", "block"}
StdSignMsgs ==
    {[Memo |-> "m", ChainID |-> "columbus", AccountNumber |-> 1,
      Sequence |-> s, Msgs |-> <<"send">>] : s \in {0, 1}}

ZeroTxResponse == [Code |-> 0, RawLog |-> "", TxHash |-> ""]
TxResponses ==
    [Code : 0..MaxCode, RawLog : {"", "out of gas"}, TxHash : {"", "AB12"}]

ZeroQueryTxResponse == [TotalCount |-> 0, Txs |-> <<>>]
QueryTxResponses ==
    {ZeroQueryTxResponse,
     [TotalCount |-> 1, Txs |-> <<>>],
     [TotalCount |-> 1,
      Txs |-> <<[Code |-> 0, RawLog |-> "", TxHash |-> "AB12"]>>]}

ZeroStdFee == [Gas |-> 0, Amount |-> <<>>]
StdFees == {ZeroStdFee, [Gas |-> 100, Amount |-> <<"1uluna">>]}
ZeroFeeBody == [Height |-> "", Result |-> [Fee |-> ZeroStdFee]]
FeeBodies == [Height : {"", "5"}, Result : [Fee : StdFees]]

ClientErrs == {New("timeout"), New("status 500")}
CodecErrs == {New("unregistered type")}

NoArgs ==
    [ctx |-> "", txHash |-> "", Page |-> NilPtr, Limit |-> NilPtr,
     tx |-> "", mode |-> "", from |-> "", msg |-> "", gasAdjustment |-> "",
     gasPrices |-> ""]

NoPayload ==
    [Context |-> "", Method |-> "", Path |-> "", Query |-> NilMap,
     Body |-> <<>>]

NoRet == [val |-> ZeroTxResponse, err |-> NoErr]

\* what the client may leave in `body` for each method
Decodable(m) ==
    CASE m = "QueryTx" -> QueryTxResponses
      [] m = "EstimateFee" -> FeeBodies
      [] OTHER -> TxResponses

----------------------------------------------------------------------------
(* codec.MarshalJSON and bytes.NewReader *)

MarshalJSON(v) == [json |-> v]

NewReader(raw) == <<raw>>

----------------------------------------------------------------------------
(* State *)

Init ==
    /\ pc = "idle"
    /\ method = "none"
    /\ args = NoArgs
    /\ filter \in Filters
    /\ filter0 = filter
    /\ payload = NoPayload
    /\ body = ZeroTxResponse
    /\ clientErr = NoErr
    /\ codecErr = NoErr
    /\ events = <<>>
    /\ ret = NoRet

\* the caller makes its next call once the previous one has returned
Callable == pc \in {"idle", "done"}

----------------------------------------------------------------------------
(* GetTxByHash *)

GetTxByHashPayload(ctx, txHash) ==
    [Context |-> ctx, Method |-> "GET", Path |-> SprintfTxPath(txHash),
     Query |-> NilMap, Body |-> <<>>]

GetTxByHash(ctx, txHash) ==
    /\ Callable
    /\ method' = "GetTxByHash"
    /\ args' = [NoArgs EXCEPT !.ctx = ctx, !.txHash = txHash]
    /\ payload' = GetTxByHashPayload(ctx, txHash)
    /\ body' = ZeroTxResponse
    /\ events' = <<"request">>
    /\ pc' = "inflight"
    /\ clientErr' = NoErr
    /\ codecErr' = NoErr
    /\ ret' = NoRet
    /\ filter0' = filter
    /\ UNCHANGED filter

\* variant: a failed request is issued again
GetTxByHashReturn_Retry ==
    /\ pc = "responded"
    /\ method = "GetTxByHash"
    /\ IF clientErr # NoErr
       THEN /\ ret' = ret
            /\ events' = Append(events, "request")
            /\ pc' = "inflight"
       ELSE /\ ret' = [val |-> body, err |-> NoErr]
            /\ events' = events
            /\ pc' = "done"
    /\ UNCHANGED <<method, args, filter, filter0, payload, body, clientErr,
                   codecErr>>

GetTxByHashReturn ==
    /\ pc = "responded"
    /\ method = "GetTxByHash"
    /\ ret' = IF clientErr # NoErr
              THEN [val |-> ZeroTxResponse,
                    err |-> Wrap(clientErr, "request json")]
              ELSE [val |-> body, err |-> NoErr]
    /\ pc' = "done"
    /\ UNCHANGED <<method, args, filter, filter0, payload, body, clientErr,
                   codecErr, events>>

----------------------------------------------------------------------------
(* QueryTx *)

\* req.Query[key] = *p, guarded by `if p != nil`; a write to a nil map panics
SetPagination(st, key, p) ==
    IF st.panic \/ p = NilPtr THEN st
    ELSE IF st.q.isNil THEN [panic |-> TRUE, q |-> st.q]
    ELSE [panic |-> FALSE, q |-> MapSet(st.q, key, IntVal(Deref(p)))]

\* variant: the limit is never written
QueryTxFilter_NoLimit(q, page, limit) ==
    SetPagination([panic |-> FALSE, q |-> q], "page", page)

\* the two pagination writes, in program order
QueryTxFilter(q, page, limit) ==
    SetPagination(SetPagination([panic |-> FALSE, q |-> q], "page", page),
                  "limit", limit)

\* for k, v := range req.Query { payload.Query[k] = fmt.Sprintf("%v", v) }
CopyQuery(q) ==
    [isNil |-> FALSE, m |-> [k \in DOMAIN q.m |-> SprintfV(q.m[k])]]

QueryTxPayload(ctx, q) ==
    [Context |-> ctx, Method |-> "GET", Path |-> "/txs",
     Query |-> CopyQuery(q), Body |-> <<>>]

QueryTx(ctx, page, limit) ==
    /\ Callable
    /\ method' = "QueryTx"
    /\ args' = [NoArgs EXCEPT !.ctx = ctx, !.Page = page, !.Limit = limit]
    /\ filter0' = filter
    /\ LET st == QueryTxFilter(filter, page, limit) IN
        /\ filter' = st.q
        /\ IF st.panic
           THEN /\ pc' = "panicked"
                /\ payload' = NoPayload
                /\ events' = <<>>
           ELSE /\ pc' = "inflight"
                /\ payload' = QueryTxPayload(ctx, st.q)
                /\ events' = <<"request">>
    /\ body' = ZeroQueryTxResponse
    /\ clientErr' = NoErr
    /\ codecErr' = NoErr
    /\ ret' = NoRet

\* variant: the partially decoded body is returned with the error
QueryTxReturn_PartialBody ==
    /\ pc = "responded"
    /\ method = "QueryTx"
    /\ ret' = [val |-> body, err |-> Wrap(clientErr, "request json")]
    /\ pc' = "done"
    /\ UNCHANGED <<method, args, filter, filter0, payload, body, clientErr,
                   codecErr, events>>

QueryTxReturn ==
    /\ pc = "responded"
    /\ method = "QueryTx"
    /\ ret' = IF clientErr # NoErr
              THEN [val |-> ZeroQueryTxResponse,
                    err |-> Wrap(clientErr, "request json")]
              ELSE [val |-> body, err |-> NoErr]
    /\ pc' = "done"
    /\ UNCHANGED <<method, args, filter, filter0, payload, body, clientErr,
                   codecErr, events>>

----------------------------------------------------------------------------
(* BroadcastTx *)

BroadcastReq(tx, mode) == [Tx |-> tx, Mode |-> mode]

\* variant: the broadcast is sent as a GET
BroadcastTxPayload_Get(ctx, rawPayloadBody) ==
    [Context |-> ctx, Method |-> "GET", Path |-> "/txs",
     Query |-> NilMap, Body |-> NewReader(rawPayloadBody)]

BroadcastTxPayload(ctx, rawPayloadBody) ==
    [Context |-> ctx, Method |-> "POST", Path |-> "/txs",
     Query |-> NilMap, Body |-> NewReader(rawPayloadBody)]

\* variant: the marshal error is not checked
BroadcastTx_IgnoreMarshalErr(ctx, tx, mode, merr) ==
    /\ Callable
    /\ method' = "BroadcastTx"
    /\ args' = [NoArgs EXCEPT !.ctx = ctx, !.tx = tx, !.mode = mode]
    /\ codecErr' = merr
    /\ ret' = NoRet
    /\ pc' = "inflight"
    /\ payload' = BroadcastTxPayload(ctx, MarshalJSON(BroadcastReq(tx, mode)))
    /\ events' = <<"request">>
    /\ body' = ZeroTxResponse
    /\ clientErr' = NoErr
    /\ filter0' = filter
    /\ UNCHANGED filter

BroadcastTx(ctx, tx, mode, merr) ==
    /\ Callable
    /\ method' = "BroadcastTx"
    /\ args' = [NoArgs EXCEPT !.ctx = ctx, !.tx = tx, !.mode = mode]
    /\ codecErr' = merr
    /\ IF merr # NoErr
       THEN /\ ret' = [val |-> ZeroTxResponse,
                       err |-> Wrap(merr, "marshal request body")]
            /\ pc' = "done"
            /\ payload' = NoPayload
            /\ events' = <<>>
       ELSE /\ ret' = NoRet
            /\ pc' = "inflight"
            /\ payload' =
                 BroadcastTxPayload(ctx, MarshalJSON(BroadcastReq(tx, mode)))
            /\ events' = <<"request">>
    /\ body' = ZeroTxResponse
    /\ clientErr' = NoErr
    /\ filter0' = filter
    /\ UNCHANGED filter

\* if err := svc.client.RequestJSON(payload, &body); err != nil { return ... }
BroadcastTxRequestReturned ==
    /\ pc = "responded"
    /\ method = "BroadcastTx"
    /\ IF clientErr # NoErr
       THEN /\ ret' = [val |-> ZeroTxResponse,
                       err |-> Wrap(clientErr, "request json")]
            /\ pc' = "done"
       ELSE /\ ret' = ret
            /\ pc' = "sleep"
    /\ UNCHANGED <<method, args, filter, filter0, payload, body, clientErr,
                   codecErr, events>>

\* variant: the pause comes twice
BroadcastTxSleep_Twice ==
    /\ pc = "sleep"
    /\ events' = events \o <<"sleep", "sleep">>
    /\ pc' = "slept"
    /\ UNCHANGED <<method, args, filter, filter0, payload, body, clientErr,
                   codecErr, ret>>

\* time.Sleep(1 * time.Second)
BroadcastTxSleep ==
    /\ pc = "sleep"
    /\ events' = Append(events, "sleep")
    /\ pc' = "slept"
    /\ UNCHANGED <<method, args, filter, filter0, payload, body, clientErr,
                   codecErr, ret>>

\* variant: a rejected broadcast returns the zero response
BroadcastResult_DropBody(b) ==
    IF b.Code # CodeTypeOK
    THEN [val |-> ZeroTxResponse, err |-> New(b.RawLog)]
    ELSE [val |-> b, err |-> NoErr]

\* the status check on the decoded response
BroadcastResult(b) ==
    IF b.Code # CodeTypeOK
    THEN [val |-> b, err |-> New(b.RawLog)]
    ELSE [val |-> b, err |-> NoErr]

BroadcastTxCheckCode ==
    /\ pc = "slept"
    /\ ret' = BroadcastResult(body)
    /\ pc' = "done"
    /\ UNCHANGED <<method, args, filter, filter0, payload, body, clientErr,
                   codecErr, events>>

----------------------------------------------------------------------------
(* EstimateFee *)

EstimateFeeReq(from, msg, gasAdjustment, gasPrices) ==
    [BaseReq |->
        [From |-> from, Memo |-> msg.Memo, ChainID |-> msg.ChainID,
         AccountNumber |-> msg.AccountNumber, Sequence |-> msg.Sequence,
         GasPrices |-> gasPrices, Gas |-> "auto",
         GasAdjustment |-> gasAdjustment, Simulate |-> FALSE],
     Msgs |-> msg.Msgs]

EstimateFeePayload(ctx, rawPayloadBody) ==
    [Context |-> ctx, Method |-> "POST", Path |-> "/txs/estimate_fee",
     Query |-> NilMap, Body |-> NewReader(rawPayloadBody)]

EstimateFee(ctx, from, msg, gasAdjustment, gasPrices, merr) ==
    /\ Callable
    /\ method' = "EstimateFee"
    /\ args' = [NoArgs EXCEPT !.ctx = ctx, !.from = from, !.msg = msg,
                              !.gasAdjustment = gasAdjustment,
                              !.gasPrices = gasPrices]
    /\ codecErr' = merr
    /\ IF merr # NoErr
       THEN /\ ret' = [val |-> ZeroStdFee,
                       err |-> Wrap(merr, "marshal request body")]
            /\ pc' = "done"
            /\ payload' = NoPayload
            /\ events' = <<>>
       ELSE /\ ret' = NoRet
            /\ pc' = "inflight"
            /\ payload' =
                 EstimateFeePayload(ctx,
                     MarshalJSON(EstimateFeeReq(from, msg, gasAdjustment,
                                                gasPrices)))
            /\ events' = <<"request">>
    /\ body' = ZeroFeeBody
    /\ clientErr' = NoErr
    /\ filter0' = filter
    /\ UNCHANGED filter

\* variant: the fee is not taken from the decoded body
EstimateFeeReturn_ZeroFee ==
    /\ pc = "responded"
    /\ method = "EstimateFee"
    /\ ret' = IF clientErr # NoErr
              THEN [val |-> ZeroStdFee,
                    err |-> Wrap(clientErr, "request json")]
              ELSE [val |-> ZeroStdFee, err |-> NoErr]
    /\ pc' = "done"
    /\ UNCHANGED <<method, args, filter, filter0, payload, body, clientErr,
                   codecErr, events>>

EstimateFeeReturn ==
    /\ pc = "responded"
    /\ method = "EstimateFee"
    /\ ret' = IF clientErr # NoErr
              THEN [val |-> ZeroStdFee,
                    err |-> Wrap(clientErr, "request json")]
              ELSE [val |-> body.Result.Fee, err |-> NoErr]
    /\ pc' = "done"
    /\ UNCHANGED <<method, args, filter, filter0, payload, body, clientErr,
                   codecErr, events>>

----------------------------------------------------------------------------
(* httpclient.Client.RequestJSON: the external client answers the request. *)
(* It decodes into `body` and returns nil, or returns an error having      *)
(* written anything (nothing, or part of a response) into `body`.          *)

RequestJSON(err, decoded) ==
    /\ pc = "inflight"
    /\ body' = decoded
    /\ clientErr' = err
    /\ pc' = "responded"
    /\ UNCHANGED <<method, args, filter, filter0, payload, codecErr, events,
                   ret>>

----------------------------------------------------------------------------

Next ==
    \/ \E ctx \in Contexts, txHash \in TxHashes : GetTxByHash(ctx, txHash)
    \/ GetTxByHashReturn
    \/ \E ctx \in Contexts, page \in Pointers, limit \in Pointers :
          QueryTx(ctx, page, limit)
    \/ QueryTxReturn
    \/ \E ctx \in Contexts, tx \in StdTxs, mode \in BroadcastModes,
          merr \in CodecErrs \cup {NoErr} : BroadcastTx(ctx, tx, mode, merr)
    \/ BroadcastTxRequestReturned
    \/ BroadcastTxSleep
    \/ BroadcastTxCheckCode
    \/ \E ctx \in Contexts, msg \in StdSignMsgs,
          merr \in CodecErrs \cup {NoErr} :
          EstimateFee(ctx, "terra1from", msg, "1.4", <<"0.015uluna">>, merr)
    \/ EstimateFeeReturn
    \/ \E err \in ClientErrs \cup {NoErr}, decoded \in Decodable(method) :
          RequestJSON(err, decoded)

Spec == Init /\ [][Next]_vars

----------------------------------------------------------------------------
(* Properties *)

NumOf(e) == Cardinality({i \in DOMAIN events : events[i] = e})

Issued == NumOf("request") > 0

Returned(m) == pc = "done" /\ method = m

ZeroOf(m) ==
    CASE m = "QueryTx" -> ZeroQueryTxResponse
      [] m = "EstimateFee" -> ZeroStdFee
      [] OTHER -> ZeroTxResponse

\* C1: when BroadcastTx's request succeeded and was decoded, the returned
\* error is nil iff the decoded code is OK; for a non-zero code the error's
\* message is exactly the raw log; the decoded response is returned in both
\* cases.
C1_BroadcastStatus ==
    (Returned("BroadcastTx") /\ Issued /\ clientErr = NoErr) =>
        /\ (ret.err = NoErr) <=> (body.Code = 0)
        /\ body.Code # 0 => (ret.err # NoErr /\ ErrorMsg(ret.err) = body.RawLog)
        /\ ret.val = body

C1_Witness ==
    /\ Returned("BroadcastTx") /\ Issued /\ clientErr = NoErr
    /\ body.Code # 0
    /\ body.RawLog = "out of gas"
    /\ ret.val # ZeroTxResponse

\* C2: within one invocation of any of the four methods RequestJSON is
\* called at most once, whatever its outcome.
C2_NoRetry == NumOf("request") <= 1

C2_Witness ==
    /\ pc = "done"
    /\ clientErr # NoErr
    /\ NumOf("request") = 1

\* C3: when RequestJSON returns an error, each method returns a non-nil
\* error wrapping it, together with the zero value of its result type.
C3_WrapAndReturn ==
    (pc = "done" /\ clientErr # NoErr) =>
        /\ ret.err # NoErr
        /\ Cause(ret.err) = clientErr
        /\ ret.val = ZeroOf(method)

C3_Witness ==
    /\ Returned("QueryTx")
    /\ clientErr # NoErr
    /\ body # ZeroQueryTxResponse
    /\ ret.val = ZeroQueryTxResponse

\* C4 as stated: every BroadcastTx invocation that issued the request has
\* paused exactly once, after the request, by the time it returns.
C4_PauseAfterEveryRequest ==
    (Returned("BroadcastTx") /\ Issued) => events = <<"request", "sleep">>

\* C4 amended: a BroadcastTx invocation whose request succeeded pauses
\* exactly once, after the request and before returning; one whose request
\* failed returns without pausing; no pause ever precedes the request.
C4_PauseAfterSuccessfulRequest ==
    /\ (Returned("BroadcastTx") /\ Issued /\ clientErr = NoErr) =>
           events = <<"request", "sleep">>
    /\ (Returned("BroadcastTx") /\ Issued /\ clientErr # NoErr) =>
           events = <<"request">>
    /\ \A i \in DOMAIN events :
           events[i] = "sleep" => \E j \in 1..(i - 1) : events[j] = "request"
    /\ NumOf("sleep") <= 1

C4_Witness ==
    /\ Returned("BroadcastTx")
    /\ clientErr = NoErr
    /\ events = <<"request", "sleep">>

\* C5: the payload handed to the client is GET /txs/<txHash>, GET /txs,
\* POST /txs and POST /txs/estimate_fee respectively; the GETs carry no
\* body, the POSTs carry the marshalled body and no query; the context is
\* the caller's.
C5_RequestMapping ==
    Issued =>
        /\ payload.Context = args.ctx
        /\ method = "GetTxByHash" =>
              /\ payload.Method = "GET"
              /\ payload.Path = "/txs/" \o args.txHash
              /\ payload.Body = <<>>
        /\ method = "QueryTx" =>
              /\ payload.Method = "GET"
              /\ payload.Path = "/txs"
              /\ payload.Body = <<>>
        /\ method = "BroadcastTx" =>
              /\ payload.Method = "POST"
              /\ payload.Path = "/txs"
              /\ payload.Body =
                    <<MarshalJSON([Tx |-> args.tx, Mode |-> args.mode])>>
              /\ payload.Query.isNil
        /\ method = "EstimateFee" =>
              /\ payload.Method = "POST"
              /\ payload.Path = "/txs/estimate_fee"
              /\ payload.Body =
                    <<MarshalJSON(EstimateFeeReq(args.from, args.msg,
                                                 args.gasAdjustment,
                                                 args.gasPrices))>>
              /\ payload.Query.isNil

C5_Witness ==
    /\ method = "BroadcastTx"
    /\ pc = "inflight"
    /\ payload.Method = "POST"
    /\ payload.Context = "ctxB"
    /\ payload.Body # <<>>

\* C6: GetTxByHash, QueryTx and EstimateFee return exactly what the client
\* decoded (for EstimateFee, body.Result.Fee) with a nil error when
\* RequestJSON succeeds, and their error is nil iff marshalling and
\* RequestJSON both succeeded.
C6_SuccessPassThrough ==
    (pc = "done" /\ method \in {"GetTxByHash", "QueryTx", "EstimateFee"}) =>
        /\ (Issued /\ clientErr = NoErr) =>
              /\ ret.err = NoErr
              /\ ret.val = IF method = "EstimateFee" THEN body.Result.Fee
                           ELSE body
        /\ (ret.err = NoErr) <=> (Issued /\ clientErr = NoErr)
        /\ Issued <=> (codecErr = NoErr)

C6_Witness ==
    /\ Returned("EstimateFee")
    /\ Issued
    /\ clientErr = NoErr
    /\ body.Result.Fee # ZeroStdFee
    /\ ret.val = body.Result.Fee

\* C7: the query map QueryTx sends has the filter's keys plus "page" when
\* Page is non-nil and "limit" when Limit is non-nil; a non-nil pagination
\* field supplies its key's value, every other value is the rendering of
\* the filter's value.
C7_QueryParameters ==
    (method = "QueryTx" /\ Issued) =>
        LET sent == payload.Query.m
            pag == [k \in {"page", "limit"} |->
                        IF k = "page" THEN args.Page ELSE args.Limit]
            set == {k \in {"page", "limit"} : pag[k] # NilPtr}
        IN  /\ DOMAIN sent = (DOMAIN filter0.m) \cup set
            /\ \A k \in DOMAIN sent :
                  sent[k] = IF k \in set
                            THEN SprintfV(IntVal(pag[k][1]))
                            ELSE SprintfV(filter0.m[k])

C7_Witness ==
    /\ method = "QueryTx"
    /\ pc = "inflight"
    /\ args.Page = <<2>>
    /\ args.Limit = NilPtr
    /\ DOMAIN filter0.m = {"page", "limit", "tx.height"}
    /\ filter0.m["page"] = IntVal(10)
    /\ payload.Query.m =
          [k \in {"page", "limit", "tx.height"} |->
              CASE k = "page" -> "2" [] k = "limit" -> "10" [] OTHER -> "a"]

\* C8: when marshalling fails, BroadcastTx and EstimateFee return an error
\* wrapping the codec error with the zero value, never call RequestJSON and
\* never pause.
C8_MarshalFailure ==
    (pc = "done" /\ codecErr # NoErr) =>
        /\ ret.err # NoErr
        /\ Cause(ret.err) = codecErr
        /\ ret.val = ZeroOf(method)
        /\ events = <<>>

C8_Witness ==
    /\ Returned("BroadcastTx")
    /\ codecErr # NoErr
    /\ ErrorMsg(ret.err) = "marshal request body: unregistered type"

\* C9: after a QueryTx call the caller's filter map has the keys and values
\* it had before the call.
C9_FilterUnchanged ==
    (method = "QueryTx" /\ pc \in {"inflight", "responded", "done"}) =>
        filter = filter0

\* C10: QueryTx never aborts before issuing the request.
C10_QueryTxNeverPanics == pc # "panicked"

====
